---- MODULE Spec2Model ----
(***************************************************************************)
(* A model of the jsonQ tree engine (src/src/utils/jsonUtils.ts) and of    *)
(* the reducer that holds the current document (JsonContextProvider,       *)
(* src/unnamed/part_005).                                                   *)
(*                                                                         *)
(* Text is a sequence of one-character strings, so that join and split on  *)
(* '.' are computed and not assumed (the nine characters of "__proto__",   *)
(* none of them a '.', are written as one element).  A JSON value is a     *)
(* tagged record.  A                                                        *)
(* TreeNode is a cell of a heap (a sequence of cells, the address of a     *)
(* cell being its index): an object spread allocates a cell, an            *)
(* assignment to a field writes one, so that sharing and mutation are      *)
(* visible.  A cell's hasChildren says that the node's children field is   *)
(* defined (an array, possibly empty) and not undefined.                   *)
(***************************************************************************)
EXTENDS Integers, Sequences, FiniteSets, TLC

(***************************************************************************)
(* Bounds of the model.                                                    *)
(***************************************************************************)
\* A document has at most MaxNodes tree nodes (containers and leaves).
MaxNodes == 3
\* The tree harness applies at most MaxOps tree operations to a built tree.
MaxOps == 2
\* The reducer takes at most MaxSteps actions.
MaxSteps == 3
\* A filter is handed at most MaxResults search results.
MaxResults == 1
\* A document that replaces one on display has at most MaxReloadNodes nodes.
MaxReloadNodes == 1
\* At most MaxUploads files are handed to the upload area.
MaxUploads == 2
\* addToast is called at most MaxToastCalls times.
MaxToastCalls == 3

(***************************************************************************)
(* JSON values (the decoded form JSON.parse produces).                     *)
(***************************************************************************)
Null == [t |-> "null"]
Bool(b) == [t |-> "boolean", b |-> b]
Num(n) == [t |-> "number", n |-> n]
Str(s) == [t |-> "string", s |-> s]
Arr(items) == [t |-> "array", items |-> items]
\* props: the own properties, in the order Object.keys lists them.
Obj(props) == [t |-> "object", props |-> props]
Prop(k, v) == [k |-> k, v |-> v]

\* Key texts of the documents: "a", "a.a", "" and "__proto__".
KeyA == <<"a">>
KeyDotted == <<"a", ".", "a">>
KeyEmpty == <<>>
KeyProto == <<"__proto__">>
\* The keys of the documents the tree harness builds from, and of those the
\* reducer is given.
TreeKeys == {KeyA, KeyEmpty, KeyProto}
PageKeys == {KeyA, KeyDotted, KeyEmpty, KeyProto}

\* The primitive values of the documents the tree harness builds from (one
\* of each kind), and of those the reducer is given.
TreePrims == {Null, Bool(TRUE), Num(1), Str(<<"x">>)}
PagePrims == {Null, Num(1)}

\* Number.prototype.toString for an array index.
Digits == <<"0", "1", "2", "3", "4", "5", "6", "7", "8", "9">>
NumToString(i) ==
  IF i < 10 THEN <<Digits[i + 1]>>
  ELSE <<Digits[(i \div 10) + 1], Digits[(i % 10) + 1]>>

\* A property name that is an array index: the engine lists these first, in
\* ascending numeric order, before the other names in insertion order.
DigitValue(c) == CHOOSE d \in 0..9 : Digits[d + 1] = c
IsIndexKey(k) ==
  /\ Len(k) > 0
  /\ \A i \in 1..Len(k) : \E d \in 1..10 : Digits[d] = k[i]
  /\ (Len(k) > 1 => k[1] # "0")
IndexValue(k) ==
  LET acc[i \in 0..Len(k)] == IF i = 0 THEN 0 ELSE 10 * acc[i - 1] + DigitValue(k[i])
  IN acc[Len(k)]

\* The order of own property names of an ordinary object.
IsKeyOrder(ks) ==
  /\ \A i, j \in 1..Len(ks) : i < j => ks[i] # ks[j]
  /\ \A i, j \in 1..Len(ks) :
       i < j => /\ ~(IsIndexKey(ks[j]) /\ ~IsIndexKey(ks[i]))
                /\ (IsIndexKey(ks[i]) /\ IsIndexKey(ks[j])
                      => IndexValue(ks[i]) < IndexValue(ks[j]))

\* Sequences of n distinct keys out of ks, in every order an object can
\* hold them.
KeySeqs(ks, n) == {s \in [1..n -> ks] : IsKeyOrder(s)}

\* The JSON values with exactly n nodes (bySize[n].vals) and the sequences
\* of values with n nodes in all (bySize[n].seqs), object keys out of keys.
ValuesBySize(keys, prims, maxN) ==
  LET bySize[n \in 0..maxN] ==
        IF n = 0 THEN [vals |-> {}, seqs |-> {<<>>}]
        ELSE LET kids == bySize[n - 1].seqs
                 vals == (IF n = 1 THEN prims ELSE {})
                         \cup {Arr(s) : s \in kids}
                         \cup UNION {{Obj([i \in 1..Len(s) |-> Prop(ks[i], s[i])]) :
                                        ks \in KeySeqs(keys, Len(s))} : s \in kids}
                 seqs == UNION {{<<v>> \o s : v \in (IF i = n THEN vals ELSE bySize[i].vals),
                                             s \in bySize[n - i].seqs} : i \in 1..n}
             IN [vals |-> vals, seqs |-> seqs]
  IN bySize

\* The documents: every JSON value of at most MaxNodes nodes.
JsonDocs(keys, prims, maxN) ==
  LET bySize == ValuesBySize(keys, prims, maxN)
  IN UNION {bySize[n].vals : n \in 1..maxN}
TreeDocs == JsonDocs(TreeKeys, TreePrims, MaxNodes)
PageDocs == JsonDocs(PageKeys, PagePrims, MaxNodes)
ReloadDocs == JsonDocs(PageKeys, PagePrims, MaxReloadNodes)

\* typeof value; NoJson stands for undefined.
typeof(value) ==
  IF value.t \in {"null", "array", "object"} THEN "object" ELSE value.t

\* Array.isArray(value)
isArray(value) == value.t = "array"

\* typeof alone: null is an "object".
getValueTypeTypeof(value) ==
  IF value.t = "array" THEN "array"
  ELSE IF value.t \in {"object", "null"} THEN "object"
  ELSE IF value.t = "string" THEN "string"
  ELSE IF value.t = "number" THEN "number"
  ELSE IF value.t = "boolean" THEN "boolean"
  ELSE "null"

\* The typeof test ahead of the Array.isArray test.
getValueTypeObjectFirst(value) ==
  IF value.t = "null" THEN "null"
  ELSE IF typeof(value) = "object" THEN "object"
  ELSE IF isArray(value) THEN "array"
  ELSE IF typeof(value) = "string" THEN "string"
  ELSE IF typeof(value) = "number" THEN "number"
  ELSE IF typeof(value) = "boolean" THEN "boolean"
  ELSE "null"

\* typeof / Array.isArray classification of a value.
getValueType(value) ==
  IF value.t = "null" THEN "null"
  ELSE IF isArray(value) THEN "array"
  ELSE IF typeof(value) = "object" THEN "object"
  ELSE IF typeof(value) = "string" THEN "string"
  ELSE IF typeof(value) = "number" THEN "number"
  ELSE IF typeof(value) = "boolean" THEN "boolean"
  ELSE "null"

(***************************************************************************)
(* The heap of TreeNode objects.                                           *)
(***************************************************************************)
\* key.toString() of a node key (a property name or an array index).
KeyToString(key) == IF key.t = "number" THEN NumToString(key.n) ELSE key.s

RootKey == Str(<<"r", "o", "o", "t">>)

\* new object: the next free address.
Alloc(h, cell) == [h |-> Append(h, cell), r |-> Len(h) + 1]

\* Array.prototype.map over node references with a callback that may
\* allocate: the heap is threaded through the calls, left to right.  Mapped(h)
\* is the map before its first call, Push(m, c) the map m after one more
\* call, which returned c.
Mapped(h) == [h |-> h, refs |-> <<>>]
Push(m, c) == [h |-> c.h, refs |-> Append(m.refs, c.r)]

\* path.length < 1: the root alone starts expanded.
AutoExpandedRoot(path) == Len(path) < 1

\* path.length < 2: the root and its immediate children start expanded.
AutoExpanded(path) == Len(path) < 2

\* [...path, childKey] with the parent's path forgotten.
ExtendPathBare(path, seg) == <<seg>>

\* [...path, childKey]
ExtendPath(path, seg) == Append(path, seg)

\* The (key, value) entries a container hands to its children.
ChildEntries(data) ==
  IF data.t = "object"
  THEN [i \in 1..Len(data.props) |->
          [key |-> Str(data.props[i].k), seg |-> data.props[i].k, value |-> data.props[i].v]]
  ELSE [i \in 1..Len(data.items) |->
          [key |-> Num(i - 1), seg |-> NumToString(i - 1), value |-> data.items[i]]]

RECURSIVE buildTreeNode(_, _, _, _, _)
buildTreeNode(h, data, path, key, parent) ==
  LET type == getValueType(data)
      node == [key |-> key, value |-> data, type |-> type, path |-> path,
               isExpanded |-> AutoExpanded(path),
               hasChildren |-> FALSE, children |-> <<>>, parent |-> parent]
      n == Alloc(h, node)
  IN IF (type = "object" /\ data # Null) \/ type = "array"
     THEN LET es == ChildEntries(data)
              acc[i \in 0..Len(es)] ==
                IF i = 0 THEN Mapped(n.h)
                ELSE LET m == acc[i - 1]
                     IN Push(m, buildTreeNode(m.h, es[i].value, ExtendPath(path, es[i].seg),
                                              es[i].key, n.r))
              done == acc[Len(es)]
          IN [h |-> [done.h EXCEPT ![n.r].hasChildren = TRUE, ![n.r].children = done.refs],
              r |-> n.r]
     ELSE n

\* The tree rooted at address a as a value: the node's fields with the
\* children in place of their references (the parent back-reference left out).
RECURSIVE TreeOf(_, _)
TreeOf(h, a) ==
  [key |-> h[a].key, value |-> h[a].value, type |-> h[a].type, path |-> h[a].path,
   isExpanded |-> h[a].isExpanded, hasChildren |-> h[a].hasChildren,
   children |-> [i \in 1..Len(h[a].children) |-> TreeOf(h, h[a].children[i])]]

\* obj[k] = v on an ordinary object: "__proto__" reaches the accessor of
\* Object.prototype and creates no own property; an index name is listed
\* among the index names in ascending order; any other new name goes last.
JsSet(props, k, v) ==
  IF \E i \in 1..Len(props) : props[i].k = k
  THEN [i \in 1..Len(props) |-> IF props[i].k = k THEN Prop(k, v) ELSE props[i]]
  ELSE IF k = KeyProto THEN props
  ELSE IF IsIndexKey(k)
  THEN LET before == SelectSeq(props, LAMBDA p : IsIndexKey(p.k) /\ IndexValue(p.k) < IndexValue(k))
           after == SelectSeq(props, LAMBDA p : ~(IsIndexKey(p.k) /\ IndexValue(p.k) < IndexValue(k)))
       IN before \o <<Prop(k, v)>> \o after
  ELSE Append(props, Prop(k, v))

RECURSIVE reconstructJsonFromTree(_, _)
reconstructJsonFromTree(h, a) ==
  LET node == h[a]
      kids == [i \in 1..Len(node.children) |-> reconstructJsonFromTree(h, node.children[i])]
  IN IF node.type = "object" /\ node.hasChildren
     THEN LET obj[i \in 0..Len(kids)] ==
                IF i = 0 THEN <<>>
                ELSE JsSet(obj[i - 1], KeyToString(h[node.children[i]].key), kids[i])
          IN Obj(obj[Len(kids)])
     ELSE IF node.type = "array" /\ node.hasChildren
     THEN Arr(kids)
     ELSE node.value

\* Object.assign(node, { f: x }): the node at a itself is changed.
SpreadInPlace(h, a, cell) == [h |-> [h EXCEPT ![a] = cell], r |-> a]

\* { ...node, f: x }: a new object with the fields of the node at a, changed
\* as cell says.  The node at a is left as it is.
Spread(h, a, cell) == Alloc(h, cell)

\* A comparison every child passes.
KeyMatchesAny(child, currentKey) == TRUE

\* child.key.toString() === currentKey
KeyMatches(child, currentKey) == KeyToString(child.key) = currentKey

\* return { ...child }: a copy of the child that is not on the path.
CopyChild(h, child) == Alloc(h, h[child])

\* return child: the child that is not on the path, as it is.
KeepChild(h, child) == [h |-> h, r |-> child]

RECURSIVE updateTreeNode(_, _, _, _)
updateTreeNode(h, tree, targetPath, newValue) ==
  IF Len(targetPath) = 0
  THEN Spread(h, tree, [h[tree] EXCEPT !.value = newValue, !.type = getValueType(newValue)])
  ELSE IF h[tree].hasChildren
  THEN LET kids == h[tree].children
           acc[i \in 0..Len(kids)] ==
             IF i = 0 THEN Mapped(h)
             ELSE LET m == acc[i - 1]
                  IN Push(m, IF KeyMatches(m.h[kids[i]], Head(targetPath))
                             THEN updateTreeNode(m.h, kids[i], Tail(targetPath), newValue)
                             ELSE KeepChild(m.h, kids[i]))
           updatedChildren == acc[Len(kids)]
       IN Spread(updatedChildren.h, tree,
                 [updatedChildren.h[tree] EXCEPT !.children = updatedChildren.refs])
  ELSE [h |-> h, r |-> tree]

\* path.join('.')
getNodePath(path) ==
  LET acc[i \in 0..Len(path)] ==
        IF i = 0 THEN <<>>
        ELSE IF i = 1 THEN path[1]
        ELSE acc[i - 1] \o <<".">> \o path[i]
  IN acc[Len(path)]

\* nodePath.split('.')
Split(text) ==
  LET acc[i \in 0..Len(text)] ==
        IF i = 0 THEN << <<>> >>
        ELSE LET parts == acc[i - 1]
             IN IF text[i] = "." THEN Append(parts, <<>>)
                ELSE [parts EXCEPT ![Len(parts)] = Append(@, text[i])]
  IN acc[Len(text)]

\* nodePath.split('.').filter(p => p !== '')
PathArray(nodePath) == SelectSeq(Split(nodePath), LAMBDA seg : seg # <<>>)

\* { ...node, isExpanded: !node.isExpanded } on every node.
RECURSIVE toggleAllTreeNodes(_, _)
toggleAllTreeNodes(h, node) ==
  LET u == Spread(h, node, [h[node] EXCEPT !.isExpanded = ~h[node].isExpanded])
  IN IF u.h[u.r].hasChildren
     THEN LET kids == u.h[u.r].children
              acc[i \in 0..Len(kids)] ==
                IF i = 0 THEN Mapped(u.h)
                ELSE LET m == acc[i - 1]
                     IN Push(m, toggleAllTreeNodes(m.h, kids[i]))
              done == acc[Len(kids)]
          IN [h |-> [done.h EXCEPT ![u.r].children = done.refs], r |-> u.r]
     ELSE u

RECURSIVE expandAllTreeNodes(_, _)
expandAllTreeNodes(h, node) ==
  LET u == Spread(h, node, [h[node] EXCEPT !.isExpanded = TRUE])
  IN IF u.h[u.r].hasChildren
     THEN LET kids == u.h[u.r].children
              acc[i \in 0..Len(kids)] ==
                IF i = 0 THEN Mapped(u.h)
                ELSE LET m == acc[i - 1]
                     IN Push(m, expandAllTreeNodes(m.h, kids[i]))
              done == acc[Len(kids)]
          IN [h |-> [done.h EXCEPT ![u.r].children = done.refs], r |-> u.r]
     ELSE u

RECURSIVE collapseAllTreeNodes(_, _)
collapseAllTreeNodes(h, node) ==
  LET u == Spread(h, node, [h[node] EXCEPT !.isExpanded = FALSE])
  IN IF u.h[u.r].hasChildren
     THEN LET kids == u.h[u.r].children
              acc[i \in 0..Len(kids)] ==
                IF i = 0 THEN Mapped(u.h)
                ELSE LET m == acc[i - 1]
                     IN Push(m, collapseAllTreeNodes(m.h, kids[i]))
              done == acc[Len(kids)]
          IN [h |-> [done.h EXCEPT ![u.r].children = done.refs], r |-> u.r]
     ELSE u

\* isExpanded: true
FlipExpandedOpen(isExpanded) == TRUE

\* isExpanded: node.isExpanded
FlipExpandedKeep(isExpanded) == isExpanded

\* !node.isExpanded
FlipExpanded(isExpanded) == ~isExpanded

RECURSIVE toggleTreeNodeExpansion(_, _, _)
toggleTreeNodeExpansion(h, node, targetPath) ==
  IF Len(targetPath) = 0
  THEN Spread(h, node, [h[node] EXCEPT !.isExpanded = FlipExpanded(h[node].isExpanded)])
  ELSE IF h[node].hasChildren
  THEN LET kids == h[node].children
           acc[i \in 0..Len(kids)] ==
             IF i = 0 THEN Mapped(h)
             ELSE LET m == acc[i - 1]
                  IN Push(m, IF KeyMatches(m.h[kids[i]], Head(targetPath))
                             THEN toggleTreeNodeExpansion(m.h, kids[i], Tail(targetPath))
                             ELSE KeepChild(m.h, kids[i]))
           updatedChildren == acc[Len(kids)]
       IN Spread(updatedChildren.h, node,
                 [updatedChildren.h[node] EXCEPT !.children = updatedChildren.refs])
  ELSE [h |-> h, r |-> node]

\* filterTreeBySearch.shouldIncludeNode
RECURSIVE shouldIncludeNode(_, _, _)
shouldIncludeNode(h, currentNode, matchingPaths) ==
  IF getNodePath(h[currentNode].path) \in matchingPaths THEN TRUE
  ELSE IF h[currentNode].hasChildren
  THEN \E i \in 1..Len(h[currentNode].children) :
          shouldIncludeNode(h, h[currentNode].children[i], matchingPaths)
  ELSE FALSE

\* A retained node that keeps the isExpanded it had.
ShownAsWas(isExpanded) == isExpanded

\* filterNode: isExpanded: true
Shown(isExpanded) == TRUE

\* filterTreeBySearch.filterNode; the reference 0 is null.
RECURSIVE filterNode(_, _, _)
filterNode(h, currentNode, matchingPaths) ==
  IF ~shouldIncludeNode(h, currentNode, matchingPaths) THEN [h |-> h, r |-> 0]
  ELSE LET kids == h[currentNode].children
           acc[i \in 0..Len(kids)] ==
             IF i = 0 THEN Mapped(h)
             ELSE LET m == acc[i - 1]
                  IN Push(m, filterNode(m.h, kids[i], matchingPaths))
           done == acc[Len(kids)]
           filteredChildren == SelectSeq(done.refs, LAMBDA c : c # 0)
       IN Spread(done.h, currentNode,
                 [done.h[currentNode] EXCEPT !.children = filteredChildren,
                                             !.isExpanded = Shown(@)])

\* searchResults: a sequence of [node, matchType, matchText], node a reference.
filterTreeBySearch(h, node, searchResults) ==
  LET matchingPaths == {getNodePath(h[searchResults[i].node].path) : i \in 1..Len(searchResults)}
  IN filterNode(h, node, matchingPaths)

(***************************************************************************)
(* Reading a tree.                                                         *)
(***************************************************************************)
\* The addresses of the nodes of the tree rooted at a.
RECURSIVE NodesOf(_, _)
NodesOf(h, a) ==
  {a} \cup UNION {NodesOf(h, h[a].children[i]) : i \in 1..Len(h[a].children)}

\* The node a path addresses: from the root, the child whose key text is the
\* next segment; 0 when a segment matches no child.
RECURSIVE Resolve(_, _, _)
Resolve(h, a, p) ==
  IF Len(p) = 0 THEN a
  ELSE LET hits == {i \in 1..Len(h[a].children) : KeyToString(h[h[a].children[i]].key) = Head(p)}
       IN IF ~h[a].hasChildren \/ hits = {} THEN 0
          ELSE Resolve(h, h[a].children[CHOOSE i \in hits : TRUE], Tail(p))

\* The paths handed to update and toggle: the path of every node of the tree,
\* and each of them continued by a segment that names no child.
NoSuchKey == <<"z">>
PathInputs(h, a) ==
  LET valid == {h[n].path : n \in NodesOf(h, a)}
  IN valid \cup {Append(p, NoSuchKey) : p \in valid}

\* The values handed to update.
NewValues == {Num(2), Arr(<<Num(2)>>)}

(***************************************************************************)
(* The edit boundary of JsonValue: the text typed into a leaf is parsed    *)
(* into a value of the leaf's kind, or the edit is refused.                *)
(***************************************************************************)
\* The texts typed into the edit field: "", " ", "2", "x", "false" and "TRUE".
EditTexts ==
  {<<>>, <<" ">>, <<"2">>, <<"x">>, <<"f", "a", "l", "s", "e">>, <<"T", "R", "U", "E">>}

\* String.prototype.toLowerCase, on the letters of the texts.
LowerOf(c) ==
  IF c = "T" THEN "t" ELSE IF c = "R" THEN "r" ELSE IF c = "U" THEN "u"
  ELSE IF c = "E" THEN "e" ELSE IF c = "A" THEN "a" ELSE IF c = "Z" THEN "z"
  ELSE IF c = "J" THEN "j" ELSE IF c = "S" THEN "s" ELSE IF c = "O" THEN "o"
  ELSE IF c = "N" THEN "n" ELSE c
toLowerCase(text) == [i \in 1..Len(text) |-> LowerOf(text[i])]

\* String.prototype.trim, for the white space of the texts (the blank).
RECURSIVE trim(_)
trim(text) ==
  IF text = <<>> THEN text
  ELSE IF Head(text) = " " THEN trim(Tail(text))
  ELSE IF text[Len(text)] = " " THEN trim(SubSeq(text, 1, Len(text) - 1))
  ELSE text

\* Number(text): text of white space only is 0, a run of decimal digits is
\* its value, and the other texts of the model are NaN.
NaN == [t |-> "number", nan |-> TRUE]
IsDigits(text) == \A i \in 1..Len(text) : \E d \in 1..10 : Digits[d] = text[i]
StringToNumber(text) ==
  IF trim(text) = <<>> THEN Num(0)
  ELSE IF IsDigits(trim(text)) THEN Num(IndexValue(trim(text)))
  ELSE NaN

\* parseEditValue: the value returned (ok), or an Error thrown (not ok).
Returns(value) == [ok |-> TRUE, value |-> value]
Throws == [ok |-> FALSE]
parseEditValue(editValue, type) ==
  IF type = "string" THEN Returns(Str(editValue))
  ELSE IF type = "number"
  THEN IF StringToNumber(editValue) = NaN THEN Throws
       ELSE Returns(StringToNumber(editValue))
  ELSE IF type = "boolean"
  THEN IF toLowerCase(editValue) = <<"t", "r", "u", "e">> THEN Returns(Bool(TRUE))
       ELSE IF toLowerCase(editValue) = <<"f", "a", "l", "s", "e">> THEN Returns(Bool(FALSE))
       ELSE Throws
  ELSE IF type = "null" THEN Returns(Null)
  ELSE Returns(Str(editValue))

\* JsonValue.handleStartEdit, with isEditable on: no edit mode for a container.
CanStartEdit(type) == ~(type = "object" \/ type = "array")

(***************************************************************************)
(* Search.                                                                 *)
(***************************************************************************)
\* Key texts of the documents searched: "a", "A" and "[".
KeyUpper == <<"A">>
KeyBracket == <<"[">>
SearchKeys == {KeyA, KeyUpper, KeyBracket}
SearchPrims == {Null, Bool(TRUE), Num(1), Str(<<"A">>)}
SearchDocs == JsonDocs(SearchKeys, SearchPrims, MaxNodes)

\* The queries: "", " ", "a", "A", "u", ".", "[" and "[a-Z]".
Queries ==
  {<<>>, <<" ">>, <<"a">>, <<"A">>, <<"u">>, <<".">>, <<"[">>,
   <<"[", "a", "-", "Z", "]">>}

\* SearchOptions; an option left out is undefined, which reads as false.
SearchOptions ==
  [caseSensitive : BOOLEAN, regex : BOOLEAN, searchKeys : BOOLEAN, searchValues : BOOLEAN]

\* String(value) of a primitive value.
StringOf(value) ==
  IF value.t = "null" THEN <<"n", "u", "l", "l">>
  ELSE IF value.t = "boolean"
  THEN (IF value.b THEN <<"t", "r", "u", "e">> ELSE <<"f", "a", "l", "s", "e">>)
  ELSE IF value.t = "number" THEN NumToString(value.n)
  ELSE value.s

\* String.prototype.includes
includes(text, searchString) ==
  \E i \in 0..(Len(text) - Len(searchString)) :
     SubSeq(text, i + 1, i + Len(searchString)) = searchString

\* The characters of the texts, in the order of their character codes.
CodeOrder ==
  <<" ", "-", ".", "0", "1", "2", "3", "4", "5", "6", "7", "8", "9",
    "A", "E", "R", "T", "U", "Z", "[", "]",
    "a", "e", "f", "l", "n", "o", "r", "s", "t", "u", "x", "z">>
CodeOf(c) == CHOOSE i \in 1..Len(CodeOrder) : CodeOrder[i] = c

\* new RegExp(source, flags), for the patterns of the model: a class [x-y],
\* the dot, an unclosed bracket, and text without special characters.
\* RegExpThrows: the constructor throws a SyntaxError (an unclosed class, a
\* class range out of order).
IsClass(source) ==
  Len(source) = 5 /\ source[1] = "[" /\ source[3] = "-" /\ source[5] = "]"
RegExpThrows(source) ==
  \/ source = <<"[">>
  \/ IsClass(source) /\ CodeOf(source[2]) > CodeOf(source[4])

\* regex.test(text) of a fresh new RegExp(source, ignoreCase ? 'gi' : 'g').
RegExpTest(source, ignoreCase, text) ==
  IF source = <<".">> THEN Len(text) > 0
  ELSE IF IsClass(source)
  THEN \E i \in 1..Len(text) : \E j \in CodeOf(source[2])..CodeOf(source[4]) :
          \/ CodeOrder[j] = text[i]
          \/ ignoreCase /\ LowerOf(CodeOrder[j]) = LowerOf(text[i])
  ELSE IF ignoreCase THEN includes(toLowerCase(text), toLowerCase(source))
  ELSE includes(text, source)

\* The matching of searchNode: the regular expression when regex is on and
\* the pattern compiles, the substring test otherwise.
Matches(text, searchQuery, options) ==
  IF options.regex
  THEN IF RegExpThrows(searchQuery) THEN includes(text, searchQuery)
       ELSE RegExpTest(searchQuery, ~options.caseSensitive, text)
  ELSE includes(text, searchQuery)

\* A result entry.
Result(node, matchType, matchText) ==
  [node |-> node, matchType |-> matchType, matchText |-> matchText]

\* The entries of the children pushed ahead of the node's own.
PushedChildrenFirst(keyEntry, valueEntry, below) == below \o keyEntry \o valueEntry

\* The order of the pushes of one searchNode call: the key entry, the value
\* entry, then what the calls on the children push.
Pushed(keyEntry, valueEntry, below) == keyEntry \o valueEntry \o below

\* searchTree.searchNode: the entries it pushes, in order.
RECURSIVE searchNode(_, _, _, _)
searchNode(h, currentNode, searchQuery, options) ==
  LET keyStr == KeyToString(h[currentNode].key)
      searchKeyStr == IF options.caseSensitive THEN keyStr ELSE toLowerCase(keyStr)
      valueStr == StringOf(h[currentNode].value)
      searchValueStr == IF options.caseSensitive THEN valueStr ELSE toLowerCase(valueStr)
      keyEntry ==
        IF options.searchKeys /\ Matches(searchKeyStr, searchQuery, options)
        THEN <<Result(currentNode, "key", keyStr)>> ELSE <<>>
      valueEntry ==
        IF /\ options.searchValues
           /\ h[currentNode].type # "object"
           /\ h[currentNode].type # "array"
           /\ Matches(searchValueStr, searchQuery, options)
        THEN <<Result(currentNode, "value", valueStr)>> ELSE <<>>
      kids == h[currentNode].children
      below[i \in 0..Len(kids)] ==
        IF i = 0 THEN <<>>
        ELSE below[i - 1] \o searchNode(h, kids[i], searchQuery, options)
  IN Pushed(keyEntry, valueEntry, below[Len(kids)])

\* A search that goes on with a query of white space only.
searchTreeNoTrim(h, node, query, options) ==
  searchNode(h, node, IF options.caseSensitive THEN query ELSE toLowerCase(query), options)

\* A search that never lower-cases the query.
searchTreeAsTyped(h, node, query, options) ==
  IF trim(query) = <<>> THEN <<>> ELSE searchNode(h, node, query, options)

searchTree(h, node, query, options) ==
  IF trim(query) = <<>> THEN <<>>
  ELSE searchNode(h, node, IF options.caseSensitive THEN query ELSE toLowerCase(query),
                  options)

(***************************************************************************)
(* State.  heap holds the TreeNode objects.  The tree harness keeps the    *)
(* document it built from (doc), the current tree (root), the tree passed  *)
(* to the last call (input), the last call (call), what the last           *)
(* reconstruction returned (out), what the last filter returned (view),    *)
(* the number of tree operations applied (ops), and whether every update   *)
(* so far gave a container to a container and a primitive to a primitive   *)
(* (kindKept).  results is what the last search returned.                  *)
(***************************************************************************)
VARIABLES heap, doc, root, input, call, out, view, ops, kindKept, results

(***************************************************************************)
(* The reducer's AppState: rawInput, jsonData, treeData (a reference into  *)
(* heap, 0 for null), expandedNodes, editingNode, searchQuery, viewMode;   *)
(* steps counts the actions dispatched.  In the reducer input is the tree  *)
(* the last action was given and call the last action.                     *)
(***************************************************************************)
VARIABLES rawInput, jsonData, treeData, expandedNodes, editingNode, searchQuery,
          viewMode, steps

(***************************************************************************)
(* The state of the components beside the reducer: upload is the state of  *)
(* FileUpload (isUploading, uploadError, uploadSuccess) with the           *)
(* processFile calls waiting for their read and the timers that clear the  *)
(* success message; toasts is the list of ToastProvider and timers the     *)
(* timeouts set and not yet fired; editor is the state of the JsonValue    *)
(* in edit mode (isEditing, editValue) and the node it shows.              *)
(***************************************************************************)
VARIABLES upload, toasts, timers, editor

treeVars == <<doc, root, out, view, ops, kindKept, results>>
uiVars == <<upload, toasts, timers, editor>>
appVars == <<rawInput, jsonData, treeData, expandedNodes, editingNode, searchQuery,
             viewMode, steps>>
vars == <<heap, input, call, treeVars, appVars, uiVars>>

NoJson == [t |-> "undefined"]
Call(op, path, value) == [op |-> op, path |-> path, value |-> value]

\* Text: the empty text, text of white space only, text the parser rejects
\* (position: the offset its message reports, -1 when it reports none) and
\* the text of a JSON value.
EmptyText == [kind |-> "empty"]
BlankText == [kind |-> "blank"]
BadText(position) == [kind |-> "invalid", position |-> position]
JsonText(v) == [kind |-> "json", v |-> v]

NoLocation == [line |-> 0, column |-> 0]
NoError == "none"
NoEditing == [editing |-> FALSE]

\* useState(false), useState(null), useState(null) of FileUpload,
\* useState([]) of ToastProvider, useState(false) and useState('') of JsonValue.
NoMessage == [set |-> FALSE]
uiInitial ==
  /\ upload = [isUploading |-> FALSE, uploadError |-> NoMessage,
               uploadSuccess |-> NoMessage, reading |-> <<>>, clearing |-> 0,
               started |-> 0]
  /\ toasts = <<>>
  /\ timers = {}
  /\ editor = [isEditing |-> FALSE, editValue |-> <<>>, node |-> 0]

\* initialState
initialState ==
  /\ rawInput = EmptyText
  /\ jsonData = [value |-> Null, isValid |-> FALSE, error |-> NoError,
                 errorLocation |-> NoLocation]
  /\ treeData = 0
  /\ expandedNodes = {}
  /\ editingNode = NoEditing
  /\ searchQuery = <<>>
  /\ viewMode = "tree"

TreeInit ==
  /\ initialState
  /\ steps = 0
  /\ \E v \in TreeDocs :
       \E b \in {buildTreeNode(<<>>, v, <<>>, RootKey, 0)} :
          /\ heap = b.h
          /\ root = b.r
          /\ doc = v
          /\ call = Call("build", <<>>, v)
  /\ input = 0
  /\ out = NoJson
  /\ view = 0
  /\ ops = 0
  /\ kindKept = TRUE
  /\ results = <<>>
  /\ uiInitial

\* An update that leaves the kind of the node it addresses (if any) a
\* container or a primitive, as it was.
IsContainer(type) == type \in {"object", "array"}
KeepsKind(h, a, p, x) ==
  Resolve(h, a, p) # 0 => (IsContainer(getValueType(x)) <=> IsContainer(h[Resolve(h, a, p)].type))

CallUpdate ==
  /\ ops < MaxOps
  /\ call.op \notin {"filter", "reconstruct"}
  /\ \E p \in PathInputs(heap, root), x \in NewValues :
        \E u \in {updateTreeNode(heap, root, p, x)} :
           /\ heap' = u.h
           /\ root' = u.r
           /\ call' = Call("update", p, x)
           /\ kindKept' = (kindKept /\ KeepsKind(heap, root, p, x))
  /\ results' = <<>>
  /\ input' = root
  /\ out' = NoJson
  /\ view' = 0
  /\ ops' = ops + 1
  /\ UNCHANGED <<doc, appVars, uiVars>>

CallToggle ==
  /\ ops < MaxOps
  /\ call.op \notin {"filter", "reconstruct"}
  /\ \E p \in PathInputs(heap, root) :
        \E u \in {toggleTreeNodeExpansion(heap, root, p)} :
           /\ heap' = u.h
           /\ root' = u.r
           /\ call' = Call("toggle", p, NoJson)
  /\ results' = <<>>
  /\ input' = root
  /\ out' = NoJson
  /\ view' = 0
  /\ ops' = ops + 1
  /\ UNCHANGED <<doc, kindKept, appVars, uiVars>>

CallExpandAll ==
  /\ ops < MaxOps
  /\ call.op \notin {"filter", "reconstruct"}
  /\ \E u \in {expandAllTreeNodes(heap, root)} : heap' = u.h /\ root' = u.r
  /\ call' = Call("expandAll", <<>>, NoJson)
  /\ results' = <<>>
  /\ input' = root
  /\ out' = NoJson
  /\ view' = 0
  /\ ops' = ops + 1
  /\ UNCHANGED <<doc, kindKept, appVars, uiVars>>

CallCollapseAll ==
  /\ ops < MaxOps
  /\ call.op \notin {"filter", "reconstruct"}
  /\ \E u \in {collapseAllTreeNodes(heap, root)} : heap' = u.h /\ root' = u.r
  /\ call' = Call("collapseAll", <<>>, NoJson)
  /\ results' = <<>>
  /\ input' = root
  /\ out' = NoJson
  /\ view' = 0
  /\ ops' = ops + 1
  /\ UNCHANGED <<doc, kindKept, appVars, uiVars>>

\* An edit of a node of the tree, committed with a text: handleStartEdit,
\* handleSaveEdit, and on a parsed value onValueChange, which reaches
\* updateTreeNode with the node's path joined (page) and split (reducer).
CallEdit ==
  /\ ops < MaxOps
  /\ call.op \notin {"filter", "reconstruct"}
  /\ \E n \in NodesOf(heap, root), editValue \in EditTexts :
        /\ CanStartEdit(heap[n].type)
        /\ \E parsed \in {parseEditValue(editValue, heap[n].type)} :
              IF parsed.ok
              THEN \E u \in {updateTreeNode(heap, root, PathArray(getNodePath(heap[n].path)),
                                            parsed.value)} :
                      /\ heap' = u.h
                      /\ root' = u.r
                      /\ call' = [op |-> "edit", path |-> heap[n].path,
                                  value |-> parsed.value, text |-> editValue]
                      /\ kindKept' = (kindKept /\ KeepsKind(heap, root,
                                        PathArray(getNodePath(heap[n].path)), parsed.value))
              ELSE /\ heap' = heap
                   /\ root' = root
                   /\ call' = [op |-> "editRejected", path |-> heap[n].path,
                               value |-> NoJson, text |-> editValue]
                   /\ kindKept' = kindKept
  /\ results' = <<>>
  /\ input' = root
  /\ out' = NoJson
  /\ view' = 0
  /\ ops' = ops + 1
  /\ UNCHANGED <<doc, appVars, uiVars>>

\* The results handed to filter: at most MaxResults nodes of the tree, in
\* heap order.
ResultInputs(h, a) ==
  {SelectSeq([i \in 1..Len(h) |->
                [node |-> i, matchType |-> "key", matchText |-> KeyToString(h[i].key)]],
             LAMBDA r : r.node \in S) :
     S \in {T \in SUBSET NodesOf(h, a) : Cardinality(T) <= MaxResults}}

CallFilter ==
  /\ call.op \notin {"filter", "reconstruct"}
  /\ \E rs \in ResultInputs(heap, root) :
        \E f \in {filterTreeBySearch(heap, root, rs)} :
           /\ heap' = f.h
           /\ view' = f.r
           /\ call' = Call("filter", [i \in 1..Len(rs) |-> heap[rs[i].node].path], NoJson)
  /\ results' = <<>>
  /\ input' = root
  /\ out' = NoJson
  /\ UNCHANGED <<doc, root, ops, kindKept, appVars, uiVars>>

CallReconstruct ==
  /\ call.op \notin {"filter", "reconstruct"}
  /\ out' = reconstructJsonFromTree(heap, root)
  /\ call' = Call("reconstruct", <<>>, NoJson)
  /\ results' = <<>>
  /\ input' = root
  /\ view' = 0
  /\ UNCHANGED <<heap, doc, root, ops, kindKept, appVars, uiVars>>

TreeNext ==
  \/ CallUpdate
  \/ CallToggle
  \/ CallExpandAll
  \/ CallCollapseAll
  \/ CallEdit
  \/ CallFilter
  \/ CallReconstruct

SpecTree == TreeInit /\ [][TreeNext]_vars

(***************************************************************************)
(* The editor harness: a JsonValue of a built tree is put into edit mode,  *)
(* text is typed, and the edit ends by a key, by a button or by the input  *)
(* losing focus.  onValueChange reaches updateTreeNode as in CallEdit.     *)
(***************************************************************************)
getEditableValue(value, type) == IF type = "null" THEN <<>> ELSE StringOf(value)

Edited(op, saved, value) ==
  [op |-> op, path |-> heap[editor.node].path, value |-> value, saved |-> saved,
   text |-> editor.editValue]

\* JsonValue.handleStartEdit, on a click on the value shown.
HandleStartEdit ==
  /\ ~editor.isEditing
  /\ ops < MaxOps
  /\ \E n \in NodesOf(heap, root) :
        /\ CanStartEdit(heap[n].type)
        /\ editor' = [isEditing |-> TRUE,
                      editValue |-> getEditableValue(heap[n].value, heap[n].type),
                      node |-> n]
        /\ call' = Call("startEdit", heap[n].path, NoJson)
  /\ ops' = ops + 1
  /\ UNCHANGED <<heap, input, doc, root, out, view, kindKept, results, appVars,
                 upload, toasts, timers>>

\* onChange={e => setEditValue(e.target.value)}
SetEditValue ==
  /\ editor.isEditing
  /\ \E text \in EditTexts :
        /\ text # editor.editValue
        /\ editor' = [editor EXCEPT !.editValue = text]
  /\ call' = Call("change", heap[editor.node].path, NoJson)
  /\ UNCHANGED <<heap, input, treeVars, appVars, upload, toasts, timers>>

\* JsonValue.handleSaveEdit, run by the event op; when parseEditValue throws
\* the component stays in edit mode and then(leaves) tells what follows.
HandleSaveEdit(op, leaves) ==
  LET type == heap[editor.node].type
      parsed == parseEditValue(editor.editValue, type)
      pathArray == PathArray(getNodePath(heap[editor.node].path))
  IN /\ IF parsed.ok
        THEN \E u \in {updateTreeNode(heap, root, pathArray, parsed.value)} :
                /\ heap' = u.h
                /\ root' = u.r
                /\ kindKept' = (kindKept /\ KeepsKind(heap, root, pathArray, parsed.value))
                /\ editor' = [editor EXCEPT !.isEditing = FALSE, !.node = 0]
                /\ call' = Edited(op, TRUE, parsed.value)
        ELSE /\ UNCHANGED <<heap, root, kindKept>>
             /\ editor' = IF leaves
                          THEN [isEditing |-> FALSE, editValue |-> <<>>, node |-> 0]
                          ELSE editor
             /\ call' = Edited(op, FALSE, NoJson)
     /\ input' = root
     /\ UNCHANGED <<doc, out, view, ops, results, appVars, upload, toasts, timers>>

\* handleKeyDown, Enter
KeyEnter ==
  /\ editor.isEditing
  /\ HandleSaveEdit("enter", FALSE)

\* onBlur={handleSaveEdit}, the focus going elsewhere
Blur ==
  /\ editor.isEditing
  /\ HandleSaveEdit("blur", FALSE)

\* A click on 'Save changes' while the input has the focus: the input's blur
\* runs handleSaveEdit; if the component is still in edit mode the click runs
\* it again, with the same editValue.
ClickSave ==
  /\ editor.isEditing
  /\ HandleSaveEdit("saveClick", FALSE)

\* A click on 'Cancel changes' while the input has the focus: the input's
\* blur runs handleSaveEdit, which ends edit mode and takes the button away
\* when the text parses; otherwise the click runs handleCancelEdit.
ClickCancel ==
  /\ editor.isEditing
  /\ HandleSaveEdit("cancelClick", TRUE)

\* handleKeyDown, Escape: handleCancelEdit
KeyEscape ==
  /\ editor.isEditing
  /\ editor' = [isEditing |-> FALSE, editValue |-> <<>>, node |-> 0]
  /\ call' = Edited("escape", FALSE, NoJson)
  /\ input' = root
  /\ UNCHANGED <<heap, doc, root, out, view, ops, kindKept, results, appVars,
                 upload, toasts, timers>>

EditorNext ==
  \/ HandleStartEdit
  \/ SetEditValue
  \/ KeyEnter
  \/ Blur
  \/ ClickSave
  \/ ClickCancel
  \/ KeyEscape

SpecEditor == TreeInit /\ [][EditorNext]_vars

(***************************************************************************)
(* The search harness: a document is built and searched.                   *)
(***************************************************************************)
SearchInit ==
  /\ initialState
  /\ steps = 0
  /\ \E v \in SearchDocs :
       \E b \in {buildTreeNode(<<>>, v, <<>>, RootKey, 0)} :
          /\ heap = b.h
          /\ root = b.r
          /\ doc = v
          /\ call = Call("build", <<>>, v)
  /\ input = 0
  /\ out = NoJson
  /\ view = 0
  /\ ops = 0
  /\ kindKept = TRUE
  /\ results = <<>>
  /\ uiInitial

CallSearch ==
  /\ call.op = "build"
  /\ \E query \in Queries, options \in SearchOptions :
        /\ results' = searchTree(heap, root, query, options)
        /\ call' = [op |-> "search", path |-> <<>>, value |-> NoJson,
                    query |-> query, options |-> options]
  /\ input' = root
  /\ UNCHANGED <<heap, doc, root, out, view, ops, kindKept, appVars, uiVars>>

SearchNext == CallSearch

SpecSearch == SearchInit /\ [][SearchNext]_vars

(***************************************************************************)
(* The classifier harness: getValueType is handed a value, a JSON value or *)
(* undefined, and call records the value and the kind returned.            *)
(***************************************************************************)
ClassifyInit ==
  /\ initialState
  /\ steps = 0
  /\ heap = <<>>
  /\ root = 0
  /\ doc = NoJson
  /\ call = Call("none", <<>>, NoJson)
  /\ input = 0
  /\ out = NoJson
  /\ view = 0
  /\ ops = 0
  /\ kindKept = TRUE
  /\ results = <<>>
  /\ uiInitial

CallGetValueType ==
  /\ \E value \in TreeDocs \cup {NoJson} :
        /\ doc' = value
        /\ call' = [op |-> "getValueType", path |-> <<>>, value |-> value,
                    type |-> getValueType(value)]
  /\ UNCHANGED <<heap, root, input, out, view, ops, kindKept, results, appVars, uiVars>>

ClassifyNext == CallGetValueType

SpecClassify == ClassifyInit /\ [][ClassifyNext]_vars

(***************************************************************************)
(* The reducer (jsonReducer) and the page's handlers.                      *)
(***************************************************************************)
\* The location read off the parser's message, for text of one line.
extractErrorLocation(rawText) ==
  IF rawText.position >= 0 THEN [line |-> 1, column |-> rawText.position + 1]
  ELSE NoLocation

\* A validation that reports rejected text without a message.
validateJsonSilent(rawText) ==
  IF rawText.kind \in {"empty", "blank"}
  THEN [value |-> Null, isValid |-> FALSE, error |-> "JSON input is empty",
        errorLocation |-> NoLocation]
  ELSE IF rawText.kind = "json"
  THEN [value |-> rawText.v, isValid |-> TRUE, error |-> NoError,
        errorLocation |-> NoLocation]
  ELSE [value |-> Null, isValid |-> FALSE, error |-> NoError,
        errorLocation |-> extractErrorLocation(rawText)]

validateJson(rawText) ==
  IF rawText.kind \in {"empty", "blank"}
  THEN [value |-> Null, isValid |-> FALSE, error |-> "JSON input is empty",
        errorLocation |-> NoLocation]
  ELSE IF rawText.kind = "json"
  THEN [value |-> rawText.v, isValid |-> TRUE, error |-> NoError,
        errorLocation |-> NoLocation]
  ELSE [value |-> Null, isValid |-> FALSE, error |-> "Syntax error",
        errorLocation |-> extractErrorLocation(rawText)]

\* currentPath ? `${currentPath}.${child.key}` : child.key.toString()
ChildPath(currentPath, key) ==
  IF currentPath # <<>> THEN currentPath \o <<".">> \o KeyToString(key)
  ELSE KeyToString(key)

RECURSIVE collectExpandedPaths(_, _, _)
collectExpandedPaths(h, node, currentPath) ==
  (IF h[node].isExpanded /\ currentPath # <<>> THEN {currentPath} ELSE {})
  \cup (IF h[node].hasChildren
        THEN UNION {collectExpandedPaths(h, h[node].children[i],
                                         ChildPath(currentPath, h[h[node].children[i]].key)) :
                      i \in 1..Len(h[node].children)}
        ELSE {})

\* The array collectAllPaths returns.
RECURSIVE collectAllPaths(_, _, _)
collectAllPaths(h, node, currentPath) ==
  LET kids == h[node].children
      acc[i \in 0..Len(kids)] ==
        IF i = 0 THEN (IF currentPath # <<>> THEN <<currentPath>> ELSE <<>>)
        ELSE acc[i - 1] \o collectAllPaths(h, kids[i], ChildPath(currentPath, h[kids[i]].key))
  IN IF h[node].hasChildren THEN acc[Len(kids)] ELSE acc[0]

\* new Set(array)
SetOf(array) == {array[i] : i \in 1..Len(array)}

\* JSON.stringify(value, null, 2)
JSONstringify(value) == JsonText(value)

\* case 'SET_JSON'.  The nodes of the tree that is replaced are referred to
\* by nothing in the new state, and leave the heap.
SET_JSON(payload) ==
  \E jd \in {validateJson(payload)} :
  \E b \in {buildTreeNode(<<>>, jd.value, <<>>, RootKey, 0)} :
  LET built == jd.isValid /\ jd.value # Null
  IN /\ rawInput' = payload
     /\ jsonData' = jd
     /\ heap' = IF built THEN b.h ELSE <<>>
     /\ treeData' = IF built THEN b.r ELSE 0
     /\ expandedNodes' = IF built THEN collectExpandedPaths(b.h, b.r, <<>>) ELSE {}
     /\ editingNode' = NoEditing
     /\ UNCHANGED <<searchQuery, viewMode>>

\* case 'VALIDATE_JSON'
VALIDATE_JSON ==
  \E jd \in {validateJson(rawInput)} :
  \E b \in {buildTreeNode(<<>>, jd.value, <<>>, RootKey, 0)} :
  LET built == jd.isValid /\ jd.value # Null
  IN /\ jsonData' = jd
     /\ heap' = IF built THEN b.h ELSE <<>>
     /\ treeData' = IF built THEN b.r ELSE 0
     /\ expandedNodes' = IF built THEN collectExpandedPaths(b.h, b.r, <<>>) ELSE {}
     /\ UNCHANGED <<rawInput, editingNode, searchQuery, viewMode>>

\* case 'TOGGLE_NODE'
TOGGLE_NODE(nodePath) ==
  IF treeData = 0
  THEN UNCHANGED <<heap, rawInput, jsonData, treeData, expandedNodes, editingNode,
                   searchQuery, viewMode>>
  ELSE \E updatedTree \in {toggleTreeNodeExpansion(heap, treeData, PathArray(nodePath))} :
          /\ heap' = updatedTree.h
          /\ treeData' = updatedTree.r
          /\ expandedNodes' = IF nodePath \in expandedNodes
                              THEN expandedNodes \ {nodePath}
                              ELSE expandedNodes \cup {nodePath}
          /\ UNCHANGED <<rawInput, jsonData, editingNode, searchQuery, viewMode>>

\* case 'EXPAND_ALL'
EXPAND_ALL ==
  IF treeData = 0
  THEN UNCHANGED <<heap, rawInput, jsonData, treeData, expandedNodes, editingNode,
                   searchQuery, viewMode>>
  ELSE \E expandedTree \in {expandAllTreeNodes(heap, treeData)} :
       LET allPaths == collectAllPaths(expandedTree.h, expandedTree.r, <<>>)
       IN /\ heap' = expandedTree.h
          /\ treeData' = expandedTree.r
          /\ expandedNodes' = SetOf(allPaths)
          /\ UNCHANGED <<rawInput, jsonData, editingNode, searchQuery, viewMode>>

\* case 'COLLAPSE_ALL'
COLLAPSE_ALL ==
  IF treeData = 0
  THEN UNCHANGED <<heap, rawInput, jsonData, treeData, expandedNodes, editingNode,
                   searchQuery, viewMode>>
  ELSE \E collapsedTree \in {collapseAllTreeNodes(heap, treeData)} :
          /\ heap' = collapsedTree.h
          /\ treeData' = collapsedTree.r
          /\ expandedNodes' = {}
          /\ UNCHANGED <<rawInput, jsonData, editingNode, searchQuery, viewMode>>

\* case 'START_EDITING'
START_EDITING(payload) ==
  /\ editingNode' = [editing |-> TRUE, path |-> payload]
  /\ UNCHANGED <<heap, rawInput, jsonData, treeData, expandedNodes, searchQuery, viewMode>>

\* A SAVE_EDIT that rebuilds the tree from the edited value, as SET_JSON does.
SAVE_EDIT_Rebuild(path, value) ==
  IF treeData = 0
  THEN UNCHANGED <<heap, rawInput, jsonData, treeData, expandedNodes, editingNode,
                   searchQuery, viewMode>>
  ELSE \E updatedTree \in {updateTreeNode(heap, treeData, PathArray(path), value)} :
       \E updatedJsonData \in
            {[value |-> reconstructJsonFromTree(updatedTree.h, updatedTree.r),
              isValid |-> TRUE, error |-> NoError, errorLocation |-> NoLocation]} :
       \E b \in {buildTreeNode(<<>>, updatedJsonData.value, <<>>, RootKey, 0)} :
          /\ heap' = b.h
          /\ treeData' = b.r
          /\ jsonData' = updatedJsonData
          /\ editingNode' = NoEditing
          /\ rawInput' = JSONstringify(updatedJsonData.value)
          /\ expandedNodes' = collectExpandedPaths(b.h, b.r, <<>>)
          /\ UNCHANGED <<searchQuery, viewMode>>

\* case 'SAVE_EDIT'.  Nothing in the try block throws for a JSON value, so
\* the catch branch is not taken.
SAVE_EDIT(path, value) ==
  IF treeData = 0
  THEN UNCHANGED <<heap, rawInput, jsonData, treeData, expandedNodes, editingNode,
                   searchQuery, viewMode>>
  ELSE \E updatedTree \in {updateTreeNode(heap, treeData, PathArray(path), value)} :
       \E updatedJsonData \in
            {[value |-> reconstructJsonFromTree(updatedTree.h, updatedTree.r),
              isValid |-> TRUE, error |-> NoError, errorLocation |-> NoLocation]} :
          /\ heap' = updatedTree.h
          /\ treeData' = updatedTree.r
          /\ jsonData' = updatedJsonData
          /\ editingNode' = NoEditing
          /\ rawInput' = JSONstringify(updatedJsonData.value)
          /\ UNCHANGED <<expandedNodes, searchQuery, viewMode>>

\* case 'CANCEL_EDIT'
CANCEL_EDIT ==
  /\ editingNode' = NoEditing
  /\ UNCHANGED <<heap, rawInput, jsonData, treeData, expandedNodes, searchQuery, viewMode>>

\* case 'SET_SEARCH_QUERY'
SET_SEARCH_QUERY(payload) ==
  /\ searchQuery' = payload
  /\ UNCHANGED <<heap, rawInput, jsonData, treeData, expandedNodes, editingNode, viewMode>>

\* case 'SET_VIEW_MODE'
SET_VIEW_MODE(payload) ==
  /\ viewMode' = payload
  /\ UNCHANGED <<heap, rawInput, jsonData, treeData, expandedNodes, editingNode,
                 searchQuery>>

\* case 'CLEAR_JSON'
CLEAR_JSON ==
  /\ heap' = <<>>
  /\ rawInput' = EmptyText
  /\ jsonData' = [value |-> Null, isValid |-> FALSE, error |-> NoError,
                  errorLocation |-> NoLocation]
  /\ treeData' = 0
  /\ expandedNodes' = {}
  /\ editingNode' = NoEditing
  /\ searchQuery' = <<>>
  /\ viewMode' = "tree"

\* The texts given to SET_JSON: no text, text that does not parse, and the
\* text of a document (of a smaller one when a tree is on display).
BadTexts == {EmptyText, BlankText, BadText(-1), BadText(0)}
FirstTexts == BadTexts \cup {JsonText(v) : v \in PageDocs}
ReloadTexts == BadTexts \cup {JsonText(v) : v \in ReloadDocs}
Texts == IF treeData = 0 THEN FirstTexts ELSE ReloadTexts

\* The path texts dispatched to the reducer: '.'-joined paths of the tree.
PathTexts ==
  IF treeData = 0 THEN {<<>>, KeyA}
  ELSE {getNodePath(p) : p \in PathInputs(heap, treeData)}

\* One dispatch: the tree handed in and the action are recorded.
Dispatched(type, path, value) ==
  /\ steps < MaxSteps
  /\ steps' = steps + 1
  /\ input' = treeData
  /\ call' = Call(type, path, value)
  /\ UNCHANGED <<treeVars, uiVars>>

SetJson ==
  \E text \in Texts : SET_JSON(text) /\ Dispatched("SET_JSON", <<>>, NoJson)

ValidateJson == VALIDATE_JSON /\ Dispatched("VALIDATE_JSON", <<>>, NoJson)

ToggleNode ==
  \E nodePath \in PathTexts :
     TOGGLE_NODE(nodePath) /\ Dispatched("TOGGLE_NODE", <<>>, Str(nodePath))

ExpandAll == EXPAND_ALL /\ Dispatched("EXPAND_ALL", <<>>, NoJson)

CollapseAll == COLLAPSE_ALL /\ Dispatched("COLLAPSE_ALL", <<>>, NoJson)

StartEditing ==
  \E path \in {<<>>, KeyA} :
     START_EDITING(path) /\ Dispatched("START_EDITING", <<>>, Str(path))

SaveEdit ==
  \E path \in PathTexts, value \in NewValues :
     SAVE_EDIT(path, value) /\ Dispatched("SAVE_EDIT", <<>>, value)

CancelEdit == CANCEL_EDIT /\ Dispatched("CANCEL_EDIT", <<>>, NoJson)

SetSearchQuery ==
  \E query \in {<<>>, KeyA} :
     SET_SEARCH_QUERY(query) /\ Dispatched("SET_SEARCH_QUERY", <<>>, Str(query))

SetViewMode ==
  \E mode \in {"tree", "raw"} :
     SET_VIEW_MODE(mode) /\ Dispatched("SET_VIEW_MODE", <<>>, NoJson)

ClearJson == CLEAR_JSON /\ Dispatched("CLEAR_JSON", <<>>, NoJson)

\* The nodes JsonNode renders: the root, and the children of every rendered
\* node that is expanded.
RECURSIVE Rendered(_, _)
Rendered(h, a) ==
  {a} \cup (IF h[a].isExpanded /\ h[a].hasChildren
            THEN UNION {Rendered(h, h[a].children[i]) : i \in 1..Len(h[a].children)}
            ELSE {})

\* The page shows the tree of a valid document; with no search text JsonTree
\* displays treeData itself.
TreeShown == jsonData.isValid /\ treeData # 0 /\ searchQuery = <<>>

\* The texts committed on the page ("2" and "false"), and the values
\* parseEditValue returns for them in a leaf of a kind; a text it throws on
\* is not passed on.
PageEditTexts == {<<"2">>, <<"f", "a", "l", "s", "e">>}
ParsedEdits(type) ==
  IF CanStartEdit(type)
  THEN {parseEditValue(editValue, type).value :
          editValue \in {e \in PageEditTexts : parseEditValue(e, type).ok}}
  ELSE {}

\* JsonNode.handleToggle -> onNodeToggle={path => toggleNode(path.join('.'))}
PageToggle ==
  /\ TreeShown
  /\ \E n \in Rendered(heap, treeData) :
        /\ heap[n].type \in {"object", "array"}
        /\ TOGGLE_NODE(getNodePath(heap[n].path))
        /\ Dispatched("pageToggle", heap[n].path, NoJson)

\* JsonValue.handleSaveEdit -> JsonNode.handleValueEdit ->
\* onNodeEdit={(path, value) => saveEdit(path.join('.'), value)}
PageEdit ==
  /\ TreeShown
  /\ \E n \in Rendered(heap, treeData) :
        /\ heap[n].type \notin {"object", "array"}
        /\ \E newValue \in ParsedEdits(heap[n].type) :
              /\ SAVE_EDIT(getNodePath(heap[n].path), newValue)
              /\ Dispatched("pageEdit", heap[n].path, newValue)

Init ==
  /\ initialState
  /\ steps = 0
  /\ heap = <<>>
  /\ input = 0
  /\ call = Call("init", <<>>, NoJson)
  /\ doc = NoJson
  /\ root = 0
  /\ out = NoJson
  /\ view = 0
  /\ ops = 0
  /\ kindKept = TRUE
  /\ results = <<>>
  /\ uiInitial

Next ==
  \/ SetJson
  \/ ValidateJson
  \/ ToggleNode
  \/ ExpandAll
  \/ CollapseAll
  \/ StartEditing
  \/ SaveEdit
  \/ CancelEdit
  \/ SetSearchQuery
  \/ SetViewMode
  \/ ClearJson
  \/ PageToggle
  \/ PageEdit

Spec == Init /\ [][Next]_vars

(***************************************************************************)
(* FileUpload: files are chosen or dropped, each processFile call runs to  *)
(* its await, and goes on when its read settles; setJson dispatches        *)
(* SET_JSON to the reducer.                                                *)
(***************************************************************************)
\* The maxSize prop, in bytes.
maxSize == 2

\* A File: its size, MIME type and name, how reading it settles (onload with
\* a string, onload with another result, onerror) and the text read.
DotJson == <<".", "j", "s", "o", "n">>
FileNames == {<<"a">> \o DotJson, <<"A", ".", "J", "S", "O", "N">>, <<"a", ".", "t", "x", "t">>}
Files ==
  [size : 1..(maxSize + 1), type : {"application/json", "text/plain"}, name : FileNames,
   read : {"text", "other", "error"},
   content : {BlankText, BadText(0), JsonText(Num(1)), JsonText(Arr(<<>>))}]

\* String.prototype.endsWith
endsWith(text, searchString) ==
  /\ Len(searchString) <= Len(text)
  /\ SubSeq(text, Len(text) - Len(searchString) + 1, Len(text)) = searchString

\* A size check that also turns away a file of exactly maxSize bytes.
ExceedsSizeFrom(size) == size >= maxSize

\* file.size > maxSize
ExceedsSize(size) == size > maxSize

isJsonFile(file) ==
  file.type = "application/json" \/ endsWith(toLowerCase(file.name), DotJson)

\* An UploadError, by its type (the message is display text).
UploadError(type) == [set |-> TRUE, type |-> type]

\* FileUpload.validateFile
validateFile(file) ==
  IF ExceedsSize(file.size) THEN UploadError("size")
  ELSE IF ~isJsonFile(file) THEN UploadError("type")
  ELSE NoMessage

\* JSON.parse(content) throws.
ParseThrows(content) == content.kind # "json"

Processed(op, file, outcome) ==
  [op |-> op, path |-> <<>>, value |-> NoJson, file |-> file, outcome |-> outcome]

\* processFile up to its first await: the three setters, validateFile and,
\* for a file turned away, the return through finally.
ProcessFile ==
  /\ upload.started < MaxUploads
  /\ \E file \in Files :
        LET validationError == validateFile(file)
        IN IF validationError.set
           THEN /\ upload' = [upload EXCEPT !.isUploading = FALSE,
                                            !.uploadError = validationError,
                                            !.uploadSuccess = NoMessage,
                                            !.started = @ + 1]
                /\ call' = Processed("processFile", file, validationError.type)
           ELSE /\ upload' = [upload EXCEPT !.isUploading = TRUE,
                                            !.uploadError = NoMessage,
                                            !.uploadSuccess = NoMessage,
                                            !.reading = Append(@, file),
                                            !.started = @ + 1]
                /\ call' = Processed("readFileContent", file, "reading")
  /\ UNCHANGED <<heap, input, treeVars, appVars, toasts, timers, editor>>

\* reading without its i-th entry
Without(reading, i) == SubSeq(reading, 1, i - 1) \o SubSeq(reading, i + 1, Len(reading))

\* processFile after its await: the read of one waiting call settles.
ReadSettled ==
  \E i \in 1..Len(upload.reading) :
     LET file == upload.reading[i]
         rest == [upload EXCEPT !.reading = Without(@, i), !.isUploading = FALSE]
     IN IF file.read # "text"
        THEN /\ upload' = [rest EXCEPT !.uploadError = UploadError("read")]
             /\ call' = Processed("processFile", file, "read")
             /\ UNCHANGED <<heap, input, treeVars, appVars, toasts, timers, editor>>
        ELSE IF ParseThrows(file.content)
        THEN /\ upload' = [rest EXCEPT !.uploadError = UploadError("parse")]
             /\ call' = Processed("processFile", file, "parse")
             /\ UNCHANGED <<heap, input, treeVars, appVars, toasts, timers, editor>>
        ELSE /\ SET_JSON(file.content)
             /\ steps' = steps + 1
             /\ input' = treeData
             /\ upload' = [rest EXCEPT !.uploadSuccess = [set |-> TRUE, name |-> file.name],
                                       !.clearing = @ + 1]
             /\ call' = Processed("processFile", file, "ok")
             /\ UNCHANGED <<treeVars, toasts, timers, editor>>

\* setTimeout(() => setUploadSuccess(null), 3000) fires.
SuccessTimeout ==
  /\ upload.clearing > 0
  /\ upload' = [upload EXCEPT !.uploadSuccess = NoMessage, !.clearing = @ - 1]
  /\ call' = Call("successTimeout", <<>>, NoJson)
  /\ UNCHANGED <<heap, input, treeVars, appVars, toasts, timers, editor>>

\* FileUpload.clearError
ClearError ==
  /\ upload.uploadError.set
  /\ upload' = [upload EXCEPT !.uploadError = NoMessage]
  /\ call' = Call("clearError", <<>>, NoJson)
  /\ UNCHANGED <<heap, input, treeVars, appVars, toasts, timers, editor>>

\* FileUpload.clearSuccess
ClearSuccess ==
  /\ upload.uploadSuccess.set
  /\ upload' = [upload EXCEPT !.uploadSuccess = NoMessage]
  /\ call' = Call("clearSuccess", <<>>, NoJson)
  /\ UNCHANGED <<heap, input, treeVars, appVars, toasts, timers, editor>>

UploadNext ==
  \/ ProcessFile
  \/ ReadSettled
  \/ SuccessTimeout
  \/ ClearError
  \/ ClearSuccess

SpecUpload == Init /\ [][UploadNext]_vars

(***************************************************************************)
(* ToastProvider: toasts are added, their timers fire, and the dismiss     *)
(* button of a toast on display sets a timer that removes it.  A toast is  *)
(* [id, duration, seq]: seq numbers the addToast calls; an id is what      *)
(* Math.random().toString(36).substr(2, 9) returned, and two calls may be  *)
(* given the same one.  A timer is [id, seq, kind]: the timeout set for    *)
(* the toast seq, by addToast ("auto") or by handleRemove ("dismiss").     *)
(***************************************************************************)
\* The maxToasts prop.
maxToasts == 2

ToastIds == {"a", "b"}

\* The duration of the toast handed to addToast: left out, 0, negative,
\* positive.
NoDuration == [given |-> FALSE, ms |-> 0]
Duration(ms) == [given |-> TRUE, ms |-> ms]
Durations == {NoDuration, Duration(0), Duration(0 - 1), Duration(7000)}

\* toast.duration ?? 5000
DurationOf(duration) == IF duration.given THEN duration.ms ELSE 5000

\* The whole array, uncut.
Unsliced(updated) == updated

\* updated.slice(0, maxToasts)
Sliced(updated) ==
  SubSeq(updated, 1, IF Len(updated) < maxToasts THEN Len(updated) ELSE maxToasts)

\* ToastProvider.removeToast: prev.filter(toast => toast.id !== id)
removeToast(prev, id) == SelectSeq(prev, LAMBDA toast : toast.id # id)

\* ToastProvider.addToast
AddToast ==
  /\ ops < MaxToastCalls
  /\ \E id \in ToastIds, duration \in Durations :
        LET newToast == [id |-> id, duration |-> DurationOf(duration), seq |-> ops + 1]
        IN /\ toasts' = Sliced(<<newToast>> \o toasts)
           /\ timers' = IF newToast.duration > 0
                        THEN timers \cup {[id |-> id, seq |-> ops + 1, kind |-> "auto"]}
                        ELSE timers
           /\ call' = [op |-> "addToast", path |-> <<>>, value |-> NoJson, id |-> id,
                       seq |-> ops + 1]
  /\ ops' = ops + 1
  /\ UNCHANGED <<heap, input, doc, root, out, view, kindKept, results, appVars,
                 upload, editor>>

\* ToastItem.handleRemove, of a toast on display.
HandleRemove ==
  /\ \E i \in 1..Len(toasts) :
        /\ [id |-> toasts[i].id, seq |-> toasts[i].seq, kind |-> "dismiss"] \notin timers
        /\ timers' = timers \cup {[id |-> toasts[i].id, seq |-> toasts[i].seq,
                                   kind |-> "dismiss"]}
        /\ call' = [op |-> "handleRemove", path |-> <<>>, value |-> NoJson,
                    id |-> toasts[i].id, seq |-> toasts[i].seq]
  /\ UNCHANGED <<heap, input, treeVars, appVars, toasts, upload, editor>>

\* A timeout fires: removeToast(id).
TimerFires ==
  /\ \E timer \in timers :
        /\ toasts' = removeToast(toasts, timer.id)
        /\ timers' = timers \ {timer}
        /\ call' = [op |-> "removeToast", path |-> <<>>, value |-> NoJson,
                    id |-> timer.id, seq |-> timer.seq]
  /\ UNCHANGED <<heap, input, treeVars, appVars, upload, editor>>

ToastNext ==
  \/ AddToast
  \/ HandleRemove
  \/ TimerFires

\* A timeout that has been set fires.
SpecToast == Init /\ [][ToastNext]_vars /\ WF_vars(TimerFires)

(***************************************************************************)
(* Properties.  In the tree harness call is the last operation applied,    *)
(* input the tree it was given and root the tree it returned; in the       *)
(* reducer call is the last dispatch and input the treeData it found.      *)
(***************************************************************************)
TreeOps == {"update", "toggle", "expandAll", "collapseAll", "filter"}

\* C1: reconstructJsonFromTree(buildTreeNode(v)) is structurally equal to v,
\* keys and elements in the same order, for every JSON value v.
C1_RoundTrip == (call.op = "reconstruct" /\ ops = 0) => out = doc

\* C2: in every reducer state with a tree, reconstructJsonFromTree(treeData)
\* is structurally equal to jsonData.value.
C2_TreeIsJsonData ==
  treeData # 0 => reconstructJsonFromTree(heap, treeData) = jsonData.value

\* The tree value t with isExpanded flipped at the node of the given path,
\* and with the value (and kind) replaced at the node of the given path.
RECURSIVE FlippedAt(_, _)
FlippedAt(t, path) ==
  [t EXCEPT !.isExpanded = IF t.path = path THEN ~@ ELSE @,
            !.children = [i \in 1..Len(t.children) |-> FlippedAt(t.children[i], path)]]

RECURSIVE EditedAt(_, _, _)
EditedAt(t, path, x) ==
  [t EXCEPT !.value = IF t.path = path THEN x ELSE @,
            !.type = IF t.path = path THEN getValueType(x) ELSE @,
            !.children = [i \in 1..Len(t.children) |-> EditedAt(t.children[i], path, x)]]

\* C3: the page's toggle of a node n flips isExpanded of exactly n, and the
\* page's edit of n replaces the value of exactly n, whatever the key texts
\* on n's path (a '.' inside a key and the empty key included).
C3_PageAddressesNode ==
  /\ call.op = "pageToggle" =>
        TreeOf(heap, treeData) = FlippedAt(TreeOf(heap, input), call.path)
  /\ call.op = "pageEdit" =>
        TreeOf(heap, treeData) = EditedAt(TreeOf(heap, input), call.path, call.value)

\* Every node of the subtree at address a is the same object in both heaps,
\* with the same fields.
SameSubtree(h, hn, a) == \A n \in NodesOf(h, a) : n \in DOMAIN hn /\ hn[n] = h[n]

\* The tree at new (heap hn) differs from the tree at old (heap h) only in
\* the nodes on the chain from old down path p: every child of a chain node
\* that is not itself on the chain is the same node, its subtree untouched.
RECURSIVE OnlyChainDiffers(_, _, _, _, _)
OnlyChainDiffers(h, old, hn, new, p) ==
  /\ Len(hn[new].children) = Len(h[old].children)
  /\ \A i \in 1..Len(h[old].children) :
        LET c == h[old].children[i]
            d == hn[new].children[i]
        IN IF p # <<>> /\ KeyToString(h[c].key) = Head(p)
           THEN OnlyChainDiffers(h, c, hn, d, Tail(p))
           ELSE d = c /\ SameSubtree(h, hn, c)

\* C4: updateTreeNode(tree, p, x) with p addressing a node differs from tree
\* only on the root-to-p chain; every subtree hanging off the chain is
\* returned as the very same node, unchanged.
C4_UpdateLocality ==
  [][(call'.op = "update" /\ Resolve(heap, root, call'.path) # 0)
       => OnlyChainDiffers(heap, root, heap', root', call'.path)]_vars

\* An update of a nested node has been applied to a tree where a sibling
\* hangs off the chain.
C4_Witness ==
  /\ call.op = "update"
  /\ Resolve(heap, input, call.path) # 0
  /\ Len(call.path) > 0
  /\ Len(heap[input].children) > 1
  /\ root # input

\* C5: updateTreeNode(tree, p, x) with p addressing no node returns a tree
\* equal by value to tree, for every x.
C5_UpdateBadPathNoOp ==
  [][(call'.op = "update" /\ Resolve(heap, root, call'.path) = 0)
       => TreeOf(heap', root') = TreeOf(heap, root)]_vars

\* An update has been applied with a path that leaves the tree below a
\* nested node.
C5_Witness ==
  /\ call.op = "update"
  /\ Resolve(heap, input, call.path) = 0
  /\ Len(call.path) > 1
  /\ call.value = Arr(<<Num(2)>>)

\* C6: after update, toggle, expandAll, collapseAll or filter, every node of
\* the tree passed in has the fields it had before the call.
C6_InputNotMutated ==
  [][call'.op \in TreeOps => SameSubtree(heap, heap', root)]_vars

\* A filter has returned a tree of its own for a tree of several nodes.
C6_Witness ==
  /\ call.op = "filter"
  /\ view # 0
  /\ view # input
  /\ Cardinality(NodesOf(heap, input)) > 1

\* The path of the root is empty and the path of every child is its parent's
\* path with the child's key text appended.
PathInvariant(h, a) ==
  /\ h[a].path = <<>>
  /\ \A n \in NodesOf(h, a) : \A i \in 1..Len(h[n].children) :
        h[h[n].children[i]].path
          = Append(h[n].path, KeyToString(h[h[n].children[i]].key))

\* C7: the path invariant holds in build(v) and in every tree obtained from
\* it by update, toggle, expandAll and collapseAll.
C7_PathInvariant == root # 0 => PathInvariant(heap, root)

\* Several operations, the last an update, have been applied to a tree with
\* a node two levels down.
C7_Witness ==
  /\ root # 0
  /\ ops > 1
  /\ call.op = "update"
  /\ \E n \in NodesOf(heap, root) : Len(heap[n].path) > 1

\* A node has a children list exactly when its kind is object or array.
ChildrenIffContainer(h, a) ==
  \A n \in NodesOf(h, a) : h[n].hasChildren <=> IsContainer(h[n].type)

\* C8, as stated: children iff container kind, in build(v) and after update
\* with any path and any value, toggle, expandAll and collapseAll.
C8_ChildrenIffContainerAnyUpdate == root # 0 => ChildrenIffContainer(heap, root)

\* C8, amended: children iff container kind, in build(v) and after toggle,
\* expandAll, collapseAll and those updates that give a container to a
\* container and a primitive to a primitive (or address no node).
C8_ChildrenIffContainer == (root # 0 /\ kindKept) => ChildrenIffContainer(heap, root)

\* An update has given a container a container value, every update before it
\* having kept kinds as well.
C8_Witness ==
  /\ root # 0
  /\ kindKept
  /\ call.op = "update"
  /\ Resolve(heap, input, call.path) # 0
  /\ IsContainer(getValueType(call.value))
  /\ root # input

\* No node of the tree has the key "__proto__" (the key C1 fails on).
NoProtoKey(h, a) == \A n \in NodesOf(h, a) : h[n].key # Str(KeyProto)

\* C9: in every reducer state every object or array node n of treeData has
\* n.value structurally equal to reconstructJsonFromTree(n).  Stated for the
\* trees without the key "__proto__", on which reconstruction is exact.
C9_ContainerValueIsChildren ==
  (treeData # 0 /\ NoProtoKey(heap, treeData)) =>
     \A n \in NodesOf(heap, treeData) :
        IsContainer(heap[n].type) => heap[n].value = reconstructJsonFromTree(heap, n)

\* C10: toggleTreeNodeExpansion(toggleTreeNodeExpansion(tree, p), p) is equal
\* by value to tree, for every path p that addresses a node.
C10_ToggleSelfInverse ==
  [][(call'.op = "toggle" /\ Resolve(heap, root, call'.path) # 0)
       => TreeOf(toggleTreeNodeExpansion(heap', root', call'.path).h,
                 toggleTreeNodeExpansion(heap', root', call'.path).r)
            = TreeOf(heap, root)]_vars

\* A toggle of a nested node has been applied after another operation.
C10_Witness ==
  /\ call.op = "toggle"
  /\ Resolve(heap, input, call.path) # 0
  /\ Len(call.path) > 1
  /\ ops > 1

\* C11: toggleTreeNodeExpansion(tree, p) changes the isExpanded flag of the
\* node at p and nothing else (every other flag, and key, value, kind, path
\* and children of every node are kept); with p addressing no node the result
\* equals tree by value.
C11_ToggleFrame ==
  [][call'.op = "toggle" =>
       TreeOf(heap', root')
         = IF Resolve(heap, root, call'.path) # 0
           THEN FlippedAt(TreeOf(heap, root), call'.path)
           ELSE TreeOf(heap, root)]_vars

\* A toggle of a child has been applied to a tree of more than two nodes.
C11_Witness ==
  /\ call.op = "toggle"
  /\ Resolve(heap, input, call.path) # 0
  /\ Len(call.path) = 1
  /\ Cardinality(NodesOf(heap, input)) > 2

\* The tree value t with isExpanded = b on every node.
RECURSIVE WithExpanded(_, _)
WithExpanded(t, b) ==
  [t EXCEPT !.isExpanded = b,
            !.children = [i \in 1..Len(t.children) |-> WithExpanded(t.children[i], b)]]

\* C12: expandAllTreeNodes returns the tree with isExpanded = true on every
\* node, collapseAllTreeNodes with isExpanded = false on every node; shape,
\* key, value, kind, path and child order are unchanged.
C12_ExpandCollapseAll ==
  [][/\ call'.op = "expandAll" =>
          TreeOf(heap', root') = WithExpanded(TreeOf(heap, root), TRUE)
     /\ call'.op = "collapseAll" =>
          TreeOf(heap', root') = WithExpanded(TreeOf(heap, root), FALSE)]_vars

\* expandAll has been applied to a tree with a collapsed leaf.
C12_Witness ==
  /\ call.op = "expandAll"
  /\ \E n \in NodesOf(heap, input) : ~heap[n].isExpanded /\ ~heap[n].hasChildren

\* C13: expandAll(expandAll(t)) = expandAll(t) and
\* collapseAll(collapseAll(t)) = collapseAll(t), by value.
C13_ExpandCollapseIdempotent ==
  [][/\ call'.op = "expandAll" =>
          TreeOf(expandAllTreeNodes(heap', root').h, expandAllTreeNodes(heap', root').r)
            = TreeOf(heap', root')
     /\ call'.op = "collapseAll" =>
          TreeOf(collapseAllTreeNodes(heap', root').h, collapseAllTreeNodes(heap', root').r)
            = TreeOf(heap', root')]_vars

\* collapseAll has been applied, after another operation, to a tree of more
\* than two nodes.
C13_Witness ==
  /\ call.op = "collapseAll"
  /\ ops > 1
  /\ Cardinality(NodesOf(heap, input)) > 2

\* C14: after SET_JSON or VALIDATE_JSON with text that parses to a non-null
\* value, dispatched in any state, treeData is the freshly built tree of that
\* value, in which a node is expanded exactly when its path has fewer than 2
\* segments.
C14_RebuildResetsExpansion ==
  (call.op \in {"SET_JSON", "VALIDATE_JSON"} /\ jsonData.isValid /\ jsonData.value # Null)
    => /\ treeData # 0
       /\ TreeOf(heap, treeData)
            = TreeOf(buildTreeNode(<<>>, jsonData.value, <<>>, RootKey, 0).h,
                     buildTreeNode(<<>>, jsonData.value, <<>>, RootKey, 0).r)
       /\ \A n \in NodesOf(heap, treeData) :
             heap[n].isExpanded <=> (Len(heap[n].path) < 2)

\* VALIDATE_JSON has rebuilt, as the third action and in place of an earlier
\* tree, a tree that has a node two levels down.
C14_Witness ==
  /\ call.op = "VALIDATE_JSON"
  /\ steps > 2
  /\ input # 0
  /\ treeData # 0
  /\ \E n \in NodesOf(heap, treeData) : Len(heap[n].path) > 1

\* The isExpanded flags of a tree value, in its shape.
RECURSIVE ExpansionOf(_)
ExpansionOf(t) ==
  [isExpanded |-> t.isExpanded,
   children |-> [i \in 1..Len(t.children) |-> ExpansionOf(t.children[i])]]

\* C15: SAVE_EDIT leaves the isExpanded flag of every node of treeData as it
\* was, and leaves expandedNodes, searchQuery and viewMode unchanged.
C15_EditKeepsExpansion ==
  [][call'.op \in {"SAVE_EDIT", "pageEdit"} =>
       /\ treeData = 0 => treeData' = 0
       /\ treeData # 0 =>
            /\ treeData' # 0
            /\ ExpansionOf(TreeOf(heap', treeData')) = ExpansionOf(TreeOf(heap, treeData))
       /\ UNCHANGED <<expandedNodes, searchQuery, viewMode>>]_vars

\* The page's edit of a leaf has been applied to a tree whose expansion is
\* not the default one of a build.
C15_Witness ==
  /\ call.op = "pageEdit"
  /\ treeData # 0
  /\ \E n \in NodesOf(heap, treeData) : heap[n].isExpanded # (Len(heap[n].path) < 2)

\* The texts an edit field of a kind is meant to accept: any text for a
\* string or a null, a run of decimal digits (white space around it apart)
\* for a number, true or false in any letter case for a boolean.
ParsesInto(text, type) ==
  IF type = "number" THEN trim(text) # <<>> /\ IsDigits(trim(text))
  ELSE IF type = "boolean"
  THEN toLowerCase(text) \in {<<"t", "r", "u", "e">>, <<"f", "a", "l", "s", "e">>}
  ELSE type \in {"string", "null"}

\* C16: an edit is of a leaf (a container does not enter edit mode); a
\* committed edit passes to update a value of the leaf's kind; and text that
\* does not parse into the kind is rejected with no call to update, the tree
\* left as it was.
C16_EditKeepsKind ==
  call.op \in {"edit", "editRejected"} =>
    LET type == heap[Resolve(heap, input, call.path)].type
    IN /\ ~IsContainer(type)
       /\ call.op = "edit" => getValueType(call.value) = type
       /\ ~ParsesInto(call.text, type) => (call.op = "editRejected" /\ root = input)

\* The text compared with the query: lower-cased unless caseSensitive.
Cased(text, options) == IF options.caseSensitive THEN text ELSE toLowerCase(text)

\* The result sequence holds the entry e.
Yields(e) == \E i \in 1..Len(results) : results[i] = e

\* C17: with regex off and a query that is not blank, searchTree yields a key
\* entry for a node exactly when searchKeys is on and the node's key as text
\* contains the query, both lower-cased unless caseSensitive, containers and
\* the root (key "root") included; it yields a value entry exactly when
\* searchValues is on, the node is not an object or array and String(value)
\* contains the query under the same case rule; it yields nothing else.
C17_SearchMatching ==
  (call.op = "search" /\ ~call.options.regex /\ trim(call.query) # <<>>) =>
    LET options == call.options
        query == Cased(call.query, options)
        nodes == NodesOf(heap, root)
    IN /\ \A n \in nodes :
            LET keyStr == KeyToString(heap[n].key)
            IN /\ Yields(Result(n, "key", keyStr))
                    <=> (options.searchKeys /\ includes(Cased(keyStr, options), query))
               /\ IF IsContainer(heap[n].type)
                  THEN \A i \in 1..Len(results) :
                          ~(results[i].node = n /\ results[i].matchType = "value")
                  ELSE Yields(Result(n, "value", StringOf(heap[n].value)))
                         <=> /\ options.searchValues
                             /\ includes(Cased(StringOf(heap[n].value), options), query)
       /\ \A i \in 1..Len(results) :
            /\ results[i].node \in nodes
            /\ results[i].matchType \in {"key", "value"}
            /\ results[i].matchText
                 = IF results[i].matchType = "key"
                   THEN KeyToString(heap[results[i].node].key)
                   ELSE StringOf(heap[results[i].node].value)

\* A case-insensitive search for "A" with regex off finds the key "a" of a
\* container and the value "A" of a leaf, and leaves a node out.
C17_Witness ==
  /\ call.op = "search"
  /\ ~call.options.regex
  /\ ~call.options.caseSensitive
  /\ call.query = <<"A">>
  /\ \E i \in 1..Len(results) :
        /\ results[i].matchType = "key"
        /\ heap[results[i].node].key = Str(KeyA)
        /\ IsContainer(heap[results[i].node].type)
  /\ \E i \in 1..Len(results) :
        /\ results[i].matchType = "value"
        /\ heap[results[i].node].value = Str(<<"A">>)
  /\ \E n \in NodesOf(heap, root) : \A i \in 1..Len(results) : results[i].node # n

\* The nodes of a tree in pre-order.
RECURSIVE PreOrder(_, _)
PreOrder(h, a) ==
  LET kids == h[a].children
      walk[i \in 0..Len(kids)] ==
        IF i = 0 THEN <<a>> ELSE walk[i - 1] \o PreOrder(h, kids[i])
  IN walk[Len(kids)]

PreOrderIndex(h, a, n) == CHOOSE i \in 1..Len(PreOrder(h, a)) : PreOrder(h, a)[i] = n

\* C18: the results of searchTree are in pre-order of the tree; a node
\* contributes at most one key entry and at most one value entry, and when it
\* contributes both the key entry comes immediately before the value entry.
C18_SearchOrder ==
  call.op = "search" =>
    \A i, j \in 1..Len(results) :
       i < j =>
         /\ results[i].node \in NodesOf(heap, root)
         /\ results[j].node \in NodesOf(heap, root)
         /\ PreOrderIndex(heap, root, results[i].node)
              <= PreOrderIndex(heap, root, results[j].node)
         /\ results[i].node = results[j].node =>
              /\ j = i + 1
              /\ results[i].matchType = "key"
              /\ results[j].matchType = "value"

\* A search yields an entry of the root, then the key entry and the value
\* entry of its first child, then an entry of its second child.
C18_Witness ==
  /\ call.op = "search"
  /\ Len(heap[root].children) = 2
  /\ Len(results) >= 4
  /\ results[1].node = root
  /\ results[2].node = heap[root].children[1]
  /\ results[3].node = heap[root].children[1]
  /\ results[4].node = heap[root].children[2]

\* C19: for every tree and every combination of options, searchTree with an
\* empty query or a query of white space only returns the empty sequence.
C19_SearchEmptiness ==
  (call.op = "search" /\ call.query \in {<<>>, <<" ">>}) => results = <<>>

\* A search for " " with every option on has been made.
C19_Witness ==
  /\ call.op = "search"
  /\ call.query = <<" ">>
  /\ call.options.regex
  /\ call.options.caseSensitive
  /\ call.options.searchKeys
  /\ call.options.searchValues
  /\ Len(heap[root].children) > 0
  /\ results = <<>>

\* C20: with regex on and a query that is not a valid regular expression,
\* searchTree returns exactly the results of the plain substring search with
\* regex off and the other options equal.
C20_RegexFallback ==
  (call.op = "search" /\ call.options.regex /\ RegExpThrows(call.query)) =>
    results = searchTree(heap, root, call.query, [call.options EXCEPT !.regex = FALSE])

\* The paths of the result nodes handed to the last filter call.
ResultPaths == {call.path[i] : i \in 1..Len(call.path)}

\* C21: if the results hold a leaf at path p, the filtered tree is not null
\* and holds the node at p and every ancestor of it up to the root, each with
\* isExpanded true, whatever the flags of the input tree were.
C21_FilterRetainsAncestors ==
  call.op = "filter" =>
    \A p \in ResultPaths :
       ~IsContainer(heap[Resolve(heap, input, p)].type) =>
          /\ view # 0
          /\ \A k \in 0..Len(p) :
               LET n == Resolve(heap, view, SubSeq(p, 1, k))
               IN /\ n # 0
                  /\ heap[n].path = SubSeq(p, 1, k)
                  /\ heap[n].key = heap[Resolve(heap, input, SubSeq(p, 1, k))].key
                  /\ heap[n].isExpanded

\* The result is a leaf two levels down in a tree whose nodes are all
\* collapsed, and a filtered tree has been returned.
C21_Witness ==
  /\ call.op = "filter"
  /\ view # 0
  /\ \E p \in ResultPaths :
        /\ Len(p) = 2
        /\ ~IsContainer(heap[Resolve(heap, input, p)].type)
  /\ \A n \in NodesOf(heap, input) : ~heap[n].isExpanded

\* A node is a result node or has a descendant that is one, paths compared
\* as sequences of keys.
RECURSIVE Retained(_, _, _)
Retained(h, n, paths) ==
  \/ h[n].path \in paths
  \/ \E i \in 1..Len(h[n].children) : Retained(h, h[n].children[i], paths)

\* C22: a node of the tree appears in the filtered tree if and only if its
\* own path is the path of a result node or one of its descendants is
\* retained, for all key texts; the result is null exactly when neither the
\* root nor a descendant of it is a result node.
C22_FilterExact ==
  call.op = "filter" =>
    /\ view = 0 <=> ~Retained(heap, input, ResultPaths)
    /\ \A n \in NodesOf(heap, input) :
         (view # 0 /\ \E m \in NodesOf(heap, view) : heap[m].path = heap[n].path)
           <=> Retained(heap, n, ResultPaths)

\* C23: getValueType returns exactly one kind by priority: null and an
\* absent value give "null", an array gives "array" and never "object", any
\* other object gives "object", a string, number or boolean its own kind.
C23_ClassifierTotal ==
  call.op = "getValueType" =>
    /\ call.type \in {"null", "array", "object", "string", "number", "boolean"}
    /\ call.type = "null" <=> (call.value = Null \/ call.value = NoJson)
    /\ call.type = "array" <=> isArray(call.value)
    /\ call.type = "object"
         <=> (typeof(call.value) = "object" /\ ~isArray(call.value) /\ call.value # Null)
    /\ \A kind \in {"string", "number", "boolean"} :
          call.type = kind <=> typeof(call.value) = kind

\* The classifier has been handed an array that holds an object.
C23_Witness ==
  /\ call.op = "getValueType"
  /\ isArray(call.value)
  /\ \E i \in 1..Len(call.value.items) : call.value.items[i].t = "object"
  /\ call.type = "array"

\* C24: validateJson returns one of two shapes: for empty text, text of white
\* space only and text the parser rejects, isValid false, value null and an
\* error message; for text the parser accepts, isValid true, the parsed value,
\* no error and no error location.
C24_ValidateShapes ==
  call.op \in {"SET_JSON", "VALIDATE_JSON"} =>
    IF rawInput.kind = "json"
    THEN /\ jsonData.isValid
         /\ jsonData.value = rawInput.v
         /\ jsonData.error = NoError
         /\ jsonData.errorLocation = NoLocation
    ELSE /\ ~jsonData.isValid
         /\ jsonData.value = Null
         /\ jsonData.error \notin {NoError, ""}

\* Text the parser rejects at a reported position has been validated while a
\* tree was on display.
C24_Witness ==
  /\ call.op = "SET_JSON"
  /\ input # 0
  /\ rawInput = BadText(0)
  /\ ~jsonData.isValid
  /\ jsonData.errorLocation = [line |-> 1, column |-> 1]

\* The file passes every check of the upload.
PassesChecks(file) ==
  /\ file.size <= maxSize
  /\ file.type = "application/json" \/ file.name \in {<<"a">> \o DotJson, <<"A", ".", "J", "S", "O", "N">>}
  /\ file.read = "text"
  /\ file.content.kind = "json"

\* The first check the file fails.
FailedCheck(file) ==
  IF file.size > maxSize THEN "size"
  ELSE IF ~(file.type = "application/json" \/ file.name \in {<<"a">> \o DotJson, <<"A", ".", "J", "S", "O", "N">>})
  THEN "type"
  ELSE IF file.read # "text" THEN "read"
  ELSE "parse"

\* C25: when the processing of a file ends, setJson has been called with the
\* file's content if and only if the file is at most maxSize bytes, is JSON by
\* MIME type or by a .json name, was read and parses; otherwise the reducer's
\* state is untouched and an upload error of type size, type, read or parse is
\* recorded; in all outcomes isUploading is false.
C25_UploadChecks ==
  [][call'.op = "processFile" =>
       /\ ~upload'.isUploading
       /\ IF PassesChecks(call'.file)
          THEN /\ steps' = steps + 1
               /\ rawInput' = call'.file.content
               /\ jsonData' = [value |-> call'.file.content.v, isValid |-> TRUE,
                               error |-> NoError, errorLocation |-> NoLocation]
          ELSE /\ UNCHANGED <<heap, appVars>>
               /\ upload'.uploadError = [set |-> TRUE, type |-> FailedCheck(call'.file)]]_vars

\* The second of two files, of exactly maxSize bytes, with a .JSON name and
\* another MIME type, has reached the reducer while the error of the first
\* file is on display.
C25_Witness ==
  /\ call.op = "processFile"
  /\ call.outcome = "ok"
  /\ call.file.size = maxSize
  /\ call.file.type # "application/json"
  /\ rawInput = call.file.content
  /\ treeData # 0
  /\ upload.started = 2
  /\ upload.uploadError.set
  /\ ~upload.isUploading

\* C26: in every state reachable by any sequence of reducer actions, treeData
\* is not null if and only if jsonData.isValid is true and jsonData.value is
\* not null.
C26_TreeIffValidValue ==
  treeData # 0 <=> (jsonData.isValid /\ jsonData.value # Null)

\* C27: when a value is being edited and the user clicks 'Cancel changes'
\* while the input has the focus, or presses Escape, onValueChange is not
\* called and the tree is left unchanged.
C27_CancelDiscards ==
  [][call'.op \in {"cancelClick", "escape"} =>
       /\ ~call'.saved
       /\ TreeOf(heap', root') = TreeOf(heap, root)]_vars

\* The '.'-joined paths of the nodes of the tree below the root whose
\* isExpanded is true.
ExpandedPathsOf(h, a) ==
  {getNodePath(h[n].path) : n \in {m \in NodesOf(h, a) : m # a /\ h[m].isExpanded}}

\* C28: in every state reached by SET_JSON, VALIDATE_JSON, TOGGLE_NODE of a
\* node of the tree, EXPAND_ALL, COLLAPSE_ALL and SAVE_EDIT, expandedNodes is
\* exactly the set of '.'-joined paths of the nodes of treeData, other than
\* the root, whose isExpanded is true.
C28_ExpandedNodesMirror ==
  expandedNodes = IF treeData = 0 THEN {} ELSE ExpandedPathsOf(heap, treeData)

\* The root of the tree has no parent, and the parent field of every other
\* node refers to the node of the tree whose children list holds it.
ParentsConsistent(h, a) ==
  /\ h[a].parent = 0
  /\ \A n \in NodesOf(h, a) :
       \A i \in 1..Len(h[n].children) : h[h[n].children[i]].parent = n

\* C29: in every tree held as treeData after any sequence of SET_JSON,
\* TOGGLE_NODE, EXPAND_ALL, COLLAPSE_ALL and SAVE_EDIT, the root has no parent
\* and each other node's parent field refers to the node of that same tree
\* whose children list contains it.
C29_ParentsConsistent ==
  treeData # 0 => ParentsConsistent(heap, treeData)

\* The toast of the seq-th addToast call is in the list.
Listed(seq) == \E i \in 1..Len(toasts) : toasts[i].seq = seq

\* C30: the toast list holds at most maxToasts entries, the newest first; a
\* toast added with a positive duration is absent from the list once its
\* timer has fired, and its timer fires; a timer that fires for an id that is
\* not in the list leaves the list unchanged.
C30_ToastsBounded ==
  /\ [](/\ Len(toasts) <= maxToasts
        /\ \A i \in 1..(Len(toasts) - 1) : toasts[i].seq > toasts[i + 1].seq)
  /\ [][call'.op = "addToast" => (toasts' # <<>> /\ toasts'[1].seq = call'.seq)]_vars
  /\ [][call'.op = "removeToast" =>
          /\ \A i \in 1..Len(toasts') : toasts'[i].seq # call'.seq
          /\ (\A i \in 1..Len(toasts) : toasts[i].id # call'.id) => toasts' = toasts]_vars
  /\ \A seq \in 1..MaxToastCalls :
       (Listed(seq) /\ \E timer \in timers : timer.seq = seq /\ timer.kind = "auto")
         ~> ~Listed(seq)

\* A timer has fired for a toast that was evicted from a full list, and left
\* the list, which holds a toast without a timer, as it was.
C30_Witness ==
  /\ call.op = "removeToast"
  /\ ops = MaxToastCalls
  /\ Len(toasts) = maxToasts
  /\ \A i \in 1..Len(toasts) : toasts[i].id # call.id
  /\ \E i \in 1..Len(toasts) : toasts[i].duration = 0

====
